---- MODULE Spec2Model ----
(***************************************************************************)
(* The stopwatch of examples/stopwatch-with-ssd1331-and-interrupts.rs:     *)
(* the four shared cells, the TIM2 and EXTI0 interrupt handlers, the state *)
(* machine they drive and the main loop that renders the cells, on one     *)
(* core whose only preemption is interrupt delivery.                       *)
(*                                                                         *)
(* A u32 is kept as two 16-bit halves [hi, lo] (value hi * 2^16 + lo), so  *)
(* that the counter has its real width: the model checker's own integers   *)
(* are narrower than 2^32.  A "wide" number is the same record with hi     *)
(* unbounded; a u32 is a wide number with hi < Base.                       *)
(***************************************************************************)
EXTENDS Integers, Sequences, FiniteSets, TLC

\* ---- bounds of the model ----
MaxTicks == 2      \* single timer firings accepted past each landmark while TIM2 is unmasked
MaxEdges == 3      \* falling edges the button produces
MaxWraps == 0      \* times the counter may go round and still be taken to a landmark
BurstMargin == 1   \* how far below a threshold a burst of timer interrupts lands
FormatSpan == 12   \* consecutive values formatted from each starting point

\* ---- program constants ----
Base == 65536      \* half of a u32: ELAPSED_MS is a Cell<u32>
BufCap == 10       \* ArrayString::<[u8; 10]>

VARIABLES
    ELAPSED_MS,    \* static ELAPSED_MS: Mutex<Cell<u32>>
    STATE_,        \* static STATE (STATE is a reserved word): Mutex<Cell<StopwatchState>>
    TIMER_TIM2,    \* static TIMER_TIM2: "None" or "Some"
    BUTTON,        \* static BUTTON: "None" or "Some"
    unmasked,      \* interrupt sources unmasked at the NVIC
    pending,       \* interrupt sources pending at the NVIC
    tim2_uif,      \* TIM2 timeout flag (cleared by clear_interrupt)
    exti_pr,       \* EXTI line 0 pending bit (cleared by clear_interrupt_pending_bit)
    primask,       \* TRUE while interrupt delivery is globally disabled
    active,        \* the handler in execution: "none", "TIM2" or "EXTI0"
    irqPc,         \* the position of the handler in execution
    val,           \* TIM2's local `val`
    isr_state,     \* EXTI0's local `state`
    mainPc,        \* the position of main
    elapsed,       \* main's local `elapsed`
    format_buf,    \* main's local `format_buf`
    state,         \* main's local `state`
    history,       \* (ELAPSED_MS, STATE_) pairs the cells have held together
    entry,         \* the cells as they were when EXTI0 entered its critical section
    edges,         \* falling edges produced so far
    merged,        \* edges that arrived while the pending bit was already set
    dispatches,    \* runs of EXTI0's match on state
    atUnmask,      \* ELAPSED_MS when TIM2 was last unmasked
    delivered,     \* TIM2 handler invocations since then (a wide number)
    wraps,         \* times ELAPSED_MS went round
    writers        \* for ELAPSED_MS and STATE, the contexts that have written the cell

cells == <<ELAPSED_MS, STATE_, TIMER_TIM2, BUTTON>>
nvic == <<unmasked, pending>>
flags == <<tim2_uif, exti_pr>>
isr == <<active, irqPc, val, isr_state>>
mainv == <<mainPc, elapsed, format_buf, state>>
counts == <<edges, merged, dispatches>>
accrual == <<atUnmask, delivered, wraps>>
vars == <<cells, nvic, flags, primask, isr, mainv, history, entry, counts, accrual, writers>>

\* ---- u32 and wide arithmetic ----
U32(h, l) == [hi |-> h, lo |-> l]
Zero == U32(0, 0)
U32_MAX == U32(Base - 1, Base - 1)

Less(a, b) == a.hi < b.hi \/ (a.hi = b.hi /\ a.lo < b.lo)

\* a + 1, a + b and a - b (for b <= a) without truncation
Inc(a) == IF a.lo + 1 < Base THEN U32(a.hi, a.lo + 1) ELSE U32(a.hi + 1, 0)
Add(a, b) ==
    LET l == a.lo + b.lo
    IN  U32(a.hi + b.hi + (l \div Base), l % Base)
Sub(a, b) ==
    IF a.lo >= b.lo THEN U32(a.hi - b.hi, a.lo - b.lo)
    ELSE U32(a.hi - b.hi - 1, a.lo + Base - b.lo)

\* the low 32 bits of a wide number: what a u32 keeps of it
Truncate(a) == U32(a.hi % Base, a.lo)

\* a u32 divided by a small d: 2^16 = (Base \div d) * d + Base % d
U32Div(a, d) == a.hi * (Base \div d) + ((a.hi * (Base % d) + a.lo) \div d)
U32Rem(a, d) == (a.hi * (Base % d) + a.lo) % d
\* Small(n) is the number n < Base as a u32
Small(n) == U32(0, n)

\* ---- format_elapsed ----
Digits == <<"0", "1", "2", "3", "4", "5", "6", "7", "8", "9">>

RECURSIVE Dec(_)
Dec(n) == IF n < 10 THEN <<Digits[n + 1]>> ELSE Dec(n \div 10) \o <<Digits[(n % 10) + 1]>>

RECURSIVE Pad(_, _)
Pad(s, w) == IF Len(s) >= w THEN s ELSE Pad(<<"0">> \o s, w)

elapsed_to_ms(e) == U32Rem(e, 1000)
elapsed_to_s(e) == U32Rem(Sub(e, Small(elapsed_to_ms(e))), 60000) \div 1000
elapsed_to_m(e) == U32Div(e, 60000)

\* the text of format_args!("{}:{:02}.{:03}", minutes, seconds, millis)
FormatText(e) ==
    Dec(elapsed_to_m(e)) \o <<":">> \o Pad(Dec(elapsed_to_s(e)), 2)
        \o <<".">> \o Pad(Dec(elapsed_to_ms(e)), 3)

\* fmt::write into the ArrayString fails when the text does not fit
FormatOk(e) == Len(FormatText(e)) <= BufCap

\* ---- the states of the stopwatch ----
StopwatchState == {"Ready", "Running", "Stopped"}

state_msg(s) ==
    CASE s = "Ready" -> "Ready"
      [] s = "Running" -> ""
      [] s = "Stopped" -> "Stopped"

\* ---- interrupt delivery ----
Deliverable(i) == i \in pending /\ i \in unmasked /\ ~primask /\ active = "none"

\* main executes only when no handler is running or about to be entered
MainRuns == active = "none" /\ mainPc # "panicked" /\ \A i \in {"TIM2", "EXTI0"} : ~Deliverable(i)

\* NVIC::unpend: the pending state goes, unless the source still asserts its line
Unpend(i, asserted) == pending' = IF asserted THEN pending ELSE pending \ {i}

\* the cell has been written by the context
Wrote(cell, context) == [writers EXCEPT ![cell] = @ \cup {context}]

Init ==
    /\ ELAPSED_MS = Zero
    /\ STATE_ = "Ready"
    /\ TIMER_TIM2 = "None"
    /\ BUTTON = "None"
    /\ unmasked = {}
    /\ pending = {}
    /\ tim2_uif = FALSE
    /\ exti_pr = FALSE
    /\ primask = FALSE
    /\ active = "none"
    /\ irqPc = "idle"
    /\ val = Zero
    /\ isr_state = "Ready"
    /\ mainPc = "m_free0"
    /\ elapsed = Zero
    /\ format_buf = <<>>
    /\ state = "Ready"
    /\ history = {<<Zero, "Ready">>}
    /\ entry = [state |-> "Ready", elapsed |-> Zero, unmasked |-> {}]
    /\ edges = 0
    /\ merged = 0
    /\ dispatches = 0
    /\ atUnmask = Zero
    /\ delivered = Zero
    /\ wraps = 0
    /\ writers = [c \in {"ELAPSED_MS", "STATE"} |-> {}]

\* ---- the hardware events ----
FromInt(n) == U32(n \div Base, n % Base)

\* the first value whose text no longer fits the buffer: 1000 minutes
FormatLimit == FromInt(60000 * 1000)

\* values just below the two thresholds of the counter
Landmarks == {Sub(FormatLimit, Small(BurstMargin)), Sub(U32_MAX, Small(BurstMargin))}

\* v is less than MaxTicks past zero or a landmark
NearLandmark(v) ==
    \E l \in {Zero} \cup Landmarks : ~Less(v, l) /\ Less(v, Add(l, Small(MaxTicks)))

\* TIM2 times out (1 kHz, Timer::tim2 with listen(Event::TimeOut)): the
\* timeout flag is set, and a rising flag makes the source pending
TimerFire ==
    /\ "TIM2" \in unmasked => NearLandmark(ELAPSED_MS)
    /\ tim2_uif' = TRUE
    /\ pending' = IF tim2_uif THEN pending ELSE pending \cup {"TIM2"}
    /\ UNCHANGED <<cells, unmasked, exti_pr, primask, isr, mainv, history, writers, entry, counts, accrual>>

\* a falling edge on PA0 (trigger_on_edge(Edge::FALLING)): the line's pending
\* bit is set; an edge that finds it set already leaves no trace
ButtonEdge ==
    /\ edges < MaxEdges
    /\ edges' = edges + 1
    /\ merged' = IF exti_pr THEN merged + 1 ELSE merged
    /\ exti_pr' = TRUE
    /\ pending' = IF exti_pr THEN pending ELSE pending \cup {"EXTI0"}
    /\ UNCHANGED <<cells, unmasked, tim2_uif, primask, isr, mainv, history, writers, entry, dispatches, accrual>>

\* ---- fn TIM2() ----
\* the NVIC enters the handler, whose body is one free(|cs| ..): on entry the
\* pending state of the source goes and interrupts are disabled
TIM2_entry ==
    /\ Deliverable("TIM2")
    /\ active' = "TIM2"
    /\ pending' = pending \ {"TIM2"}
    /\ primask' = TRUE
    /\ irqPc' = "t_ack"
    /\ UNCHANGED <<cells, unmasked, flags, val, isr_state, mainv, history, writers, entry, counts, accrual>>

\* a handler that leaves the timeout flag of the timer set
TIM2_ack_skipped ==
    /\ active = "TIM2" /\ irqPc = "t_ack"
    /\ tim2_uif' = tim2_uif
    /\ irqPc' = "t_get"
    /\ UNCHANGED <<cells, nvic, exti_pr, primask, active, val, isr_state, mainv, history, writers, entry, counts, accrual>>

\* if let Some(tim2) = TIMER_TIM2 { tim2.clear_interrupt(Event::TimeOut) }
TIM2_ack ==
    /\ active = "TIM2" /\ irqPc = "t_ack"
    /\ tim2_uif' = IF TIMER_TIM2 = "Some" THEN FALSE ELSE tim2_uif
    /\ irqPc' = "t_get"
    /\ UNCHANGED <<cells, nvic, exti_pr, primask, active, val, isr_state, mainv, history, writers, entry, counts, accrual>>

\* let val = cell.get()
TIM2_get ==
    /\ active = "TIM2" /\ irqPc = "t_get"
    /\ val' = ELAPSED_MS
    /\ irqPc' = "t_replace"
    /\ UNCHANGED <<cells, nvic, flags, primask, active, isr_state, mainv, history, writers, entry, counts, accrual>>

\* cell.replace(val + 1), val + 1 in range
TIM2_replace ==
    /\ active = "TIM2" /\ irqPc = "t_replace"
    /\ val # U32_MAX
    /\ ELAPSED_MS' = Inc(val)
    /\ history' = history \cup {<<Inc(val), STATE_>>}
    /\ writers' = Wrote("ELAPSED_MS", "TIM2")
    /\ delivered' = Inc(delivered)
    /\ irqPc' = "t_exit"
    /\ UNCHANGED <<STATE_, TIMER_TIM2, BUTTON, nvic, flags, primask, active, val, isr_state, mainv, entry, counts, atUnmask, wraps>>

\* cell.replace(val + 1), val + 1 out of range, overflow checks off (release):
\* the sum is truncated to 32 bits
TIM2_replace_wrap ==
    /\ active = "TIM2" /\ irqPc = "t_replace"
    /\ val = U32_MAX
    /\ ELAPSED_MS' = Truncate(Inc(val))
    /\ history' = history \cup {<<Truncate(Inc(val)), STATE_>>}
    /\ writers' = Wrote("ELAPSED_MS", "TIM2")
    /\ delivered' = Inc(delivered)
    /\ wraps' = wraps + 1
    /\ irqPc' = "t_exit"
    /\ UNCHANGED <<STATE_, TIMER_TIM2, BUTTON, nvic, flags, primask, active, val, isr_state, mainv, entry, counts, atUnmask>>

\* cell.replace(val + 1), val + 1 out of range, overflow checks on (debug):
\* the addition panics, and the panic handler halts with interrupts disabled
TIM2_replace_panic ==
    /\ active = "TIM2" /\ irqPc = "t_replace"
    /\ val = U32_MAX
    /\ delivered' = Inc(delivered)
    /\ irqPc' = "panicked"
    /\ UNCHANGED <<cells, nvic, flags, primask, active, val, isr_state, mainv, history, writers, entry, counts, atUnmask, wraps>>

\* the closure ends, interrupts are enabled again and the handler returns: a
\* source whose flag is still set is pending again
TIM2_exit ==
    /\ active = "TIM2" /\ irqPc = "t_exit"
    /\ primask' = FALSE
    /\ active' = "none"
    /\ irqPc' = "idle"
    /\ val' = Zero
    /\ pending' = IF tim2_uif THEN pending \cup {"TIM2"} ELSE pending
    /\ UNCHANGED <<cells, unmasked, flags, isr_state, mainv, history, writers, entry, counts, accrual>>

\* a run of timer interrupts during main's delay_ms, each one serviced to its
\* end before the next timeout and before anything else happens, that takes
\* the counter from zero or a landmark to a later landmark
TIM2_burst ==
    /\ MainRuns /\ mainPc = "m_delay"
    /\ "TIM2" \in unmasked /\ ~tim2_uif /\ TIMER_TIM2 = "Some"
    /\ wraps <= MaxWraps
    /\ ELAPSED_MS \in {Zero} \cup Landmarks
    /\ \E l \in Landmarks :
          /\ Less(ELAPSED_MS, l)
          /\ ELAPSED_MS' = l
          /\ history' = history \cup {<<l, STATE_>>}
          /\ writers' = Wrote("ELAPSED_MS", "TIM2")
          /\ delivered' = Add(delivered, Sub(l, ELAPSED_MS))
    /\ UNCHANGED <<STATE_, TIMER_TIM2, BUTTON, nvic, flags, primask, isr, mainv, entry, counts, atUnmask, wraps>>

TIM2 ==
    \/ TIM2_entry \/ TIM2_ack \/ TIM2_get
    \/ TIM2_replace \/ TIM2_replace_wrap \/ TIM2_replace_panic
    \/ TIM2_exit \/ TIM2_burst

\* ---- fn stopwatch_start(cs) ----
\* ELAPSED_MS.borrow(cs).replace(0)
start_reset ==
    /\ active = "EXTI0" /\ irqPc = "start_reset"
    /\ ELAPSED_MS' = Zero
    /\ history' = history \cup {<<Zero, STATE_>>}
    /\ writers' = Wrote("ELAPSED_MS", "EXTI0")
    /\ irqPc' = "start_unmask"
    /\ UNCHANGED <<STATE_, TIMER_TIM2, BUTTON, nvic, flags, primask, active, val, isr_state, mainv, entry, counts, accrual>>

\* stopwatch_start that forgets to unmask the timer interrupt
start_unmask_skipped ==
    /\ active = "EXTI0" /\ irqPc = "start_unmask"
    /\ atUnmask' = ELAPSED_MS
    /\ delivered' = Zero
    /\ irqPc' = "set_running"
    /\ UNCHANGED <<cells, nvic, flags, primask, active, val, isr_state, mainv, history, writers, entry, counts, wraps>>

\* NVIC::unmask(Interrupt::TIM2)
start_unmask ==
    /\ active = "EXTI0" /\ irqPc = "start_unmask"
    /\ unmasked' = unmasked \cup {"TIM2"}
    /\ atUnmask' = ELAPSED_MS
    /\ delivered' = Zero
    /\ irqPc' = "set_running"
    /\ UNCHANGED <<cells, pending, flags, primask, active, val, isr_state, mainv, history, writers, entry, counts, wraps>>

stopwatch_start == start_reset \/ start_unmask

\* stopwatch_stop that leaves the timer interrupt unmasked
stopwatch_stop_nomask ==
    /\ active = "EXTI0" /\ irqPc = "stop_mask"
    /\ irqPc' = "set_stopped"
    /\ UNCHANGED <<cells, nvic, flags, primask, isr_state, active, val, mainv, history, writers, entry, counts, accrual>>

\* stopwatch_stop that masks the button's interrupt instead of the timer's
stopwatch_stop_wrong_irq ==
    /\ active = "EXTI0" /\ irqPc = "stop_mask"
    /\ unmasked' = unmasked \ {"EXTI0"}
    /\ irqPc' = "set_stopped"
    /\ UNCHANGED <<cells, pending, flags, primask, isr_state, active, val, mainv, history, writers, entry, counts, accrual>>

\* stopwatch_stop that also clears the counter
stopwatch_stop_reset ==
    /\ active = "EXTI0" /\ irqPc = "stop_mask"
    /\ unmasked' = unmasked \ {"TIM2"}
    /\ ELAPSED_MS' = Zero
    /\ history' = history \cup {<<Zero, STATE_>>}
    /\ writers' = Wrote("ELAPSED_MS", "EXTI0")
    /\ irqPc' = "set_stopped"
    /\ UNCHANGED <<STATE_, TIMER_TIM2, BUTTON, pending, flags, primask, isr_state, active, val, mainv, entry, counts, accrual>>

\* ---- fn stopwatch_stop(_cs) ----
\* NVIC::mask(Interrupt::TIM2)
stopwatch_stop ==
    /\ active = "EXTI0" /\ irqPc = "stop_mask"
    /\ unmasked' = unmasked \ {"TIM2"}
    /\ irqPc' = "set_stopped"
    /\ UNCHANGED <<cells, pending, flags, primask, isr_state, active, val, mainv, history, writers, entry, counts, accrual>>

\* ---- fn EXTI0() ----
\* the NVIC enters the handler, whose body is one free(|cs| ..): on entry the
\* pending state of the source goes and interrupts are disabled
EXTI0_entry ==
    /\ Deliverable("EXTI0")
    /\ active' = "EXTI0"
    /\ pending' = pending \ {"EXTI0"}
    /\ primask' = TRUE
    /\ entry' = [state |-> STATE_, elapsed |-> ELAPSED_MS, unmasked |-> unmasked]
    /\ irqPc' = "e_btn"
    /\ UNCHANGED <<cells, unmasked, flags, val, isr_state, mainv, history, writers, counts, accrual>>

\* EXTI0 that does not clear the line's pending bit
EXTI0_btn_noack ==
    /\ active = "EXTI0" /\ irqPc = "e_btn"
    /\ irqPc' = IF BUTTON = "Some" THEN "e_read" ELSE "e_exit"
    /\ UNCHANGED <<cells, nvic, flags, primask, active, val, isr_state, mainv, history, writers, entry, counts, accrual>>

\* if let Some(btn) = BUTTON { btn.clear_interrupt_pending_bit(); ... }
EXTI0_btn ==
    /\ active = "EXTI0" /\ irqPc = "e_btn"
    /\ IF BUTTON = "Some"
       THEN exti_pr' = FALSE /\ irqPc' = "e_read"
       ELSE exti_pr' = exti_pr /\ irqPc' = "e_exit"
    /\ UNCHANGED <<cells, nvic, tim2_uif, primask, active, val, isr_state, mainv, history, writers, entry, counts, accrual>>

\* let state = STATE.borrow(cs).get()
EXTI0_read ==
    /\ active = "EXTI0" /\ irqPc = "e_read"
    /\ isr_state' = STATE_
    /\ irqPc' = "e_match"
    /\ UNCHANGED <<cells, nvic, flags, primask, active, val, mainv, history, writers, entry, counts, accrual>>

\* a match whose Stopped arm starts the stopwatch again
EXTI0_match_restart ==
    /\ active = "EXTI0" /\ irqPc = "e_match"
    /\ dispatches' = dispatches + 1
    /\ irqPc' = CASE isr_state = "Ready" -> "start_reset"
                  [] isr_state = "Running" -> "stop_mask"
                  [] isr_state = "Stopped" -> "start_reset"
    /\ UNCHANGED <<cells, nvic, flags, primask, active, val, isr_state, mainv, history, writers, entry, edges, merged, accrual>>

\* match state { Ready => .., Running => .., Stopped => {} }
EXTI0_match ==
    /\ active = "EXTI0" /\ irqPc = "e_match"
    /\ dispatches' = dispatches + 1
    /\ irqPc' = CASE isr_state = "Ready" -> "start_reset"
                  [] isr_state = "Running" -> "stop_mask"
                  [] isr_state = "Stopped" -> "e_exit"
    /\ UNCHANGED <<cells, nvic, flags, primask, active, val, isr_state, mainv, history, writers, entry, edges, merged, accrual>>

\* STATE.borrow(cs).replace(StopwatchState::Running)
EXTI0_set_running ==
    /\ active = "EXTI0" /\ irqPc = "set_running"
    /\ STATE_' = "Running"
    /\ history' = history \cup {<<ELAPSED_MS, "Running">>}
    /\ writers' = Wrote("STATE", "EXTI0")
    /\ irqPc' = "e_exit"
    /\ UNCHANGED <<ELAPSED_MS, TIMER_TIM2, BUTTON, nvic, flags, primask, active, val, isr_state, mainv, entry, counts, accrual>>

\* a stop that puts the stopwatch back to Ready
EXTI0_set_stopped_toggle ==
    /\ active = "EXTI0" /\ irqPc = "set_stopped"
    /\ STATE_' = "Ready"
    /\ history' = history \cup {<<ELAPSED_MS, "Ready">>}
    /\ writers' = Wrote("STATE", "EXTI0")
    /\ irqPc' = "e_exit"
    /\ UNCHANGED <<ELAPSED_MS, TIMER_TIM2, BUTTON, nvic, flags, primask, active, val, isr_state, mainv, entry, counts, accrual>>

\* STATE.borrow(cs).replace(StopwatchState::Stopped)
EXTI0_set_stopped ==
    /\ active = "EXTI0" /\ irqPc = "set_stopped"
    /\ STATE_' = "Stopped"
    /\ history' = history \cup {<<ELAPSED_MS, "Stopped">>}
    /\ writers' = Wrote("STATE", "EXTI0")
    /\ irqPc' = "e_exit"
    /\ UNCHANGED <<ELAPSED_MS, TIMER_TIM2, BUTTON, nvic, flags, primask, active, val, isr_state, mainv, entry, counts, accrual>>

\* the closure ends, interrupts are enabled again and the handler returns: a
\* source whose flag is still set is pending again
EXTI0_exit ==
    /\ active = "EXTI0" /\ irqPc = "e_exit"
    /\ primask' = FALSE
    /\ active' = "none"
    /\ irqPc' = "idle"
    /\ isr_state' = "Ready"
    /\ entry' = [state |-> "Ready", elapsed |-> Zero, unmasked |-> {}]
    /\ pending' = IF exti_pr THEN pending \cup {"EXTI0"} ELSE pending
    /\ UNCHANGED <<cells, unmasked, flags, val, mainv, history, writers, counts, accrual>>

EXTI0 ==
    \/ EXTI0_entry \/ EXTI0_btn \/ EXTI0_read \/ EXTI0_match
    \/ stopwatch_start \/ EXTI0_set_running
    \/ stopwatch_stop \/ EXTI0_set_stopped
    \/ EXTI0_exit

\* ---- fn main() ----
\* a closure run without free: interrupts stay enabled
main_free_open(from, to) ==
    /\ MainRuns /\ mainPc = from
    /\ primask' = primask
    /\ mainPc' = to
    /\ UNCHANGED <<cells, nvic, flags, isr, elapsed, format_buf, state, history, writers, entry, counts, accrual>>

\* free(|cs| ..): interrupts are disabled for the closure and enabled after it
main_free(from, to) ==
    /\ MainRuns /\ mainPc = from
    /\ primask' = TRUE
    /\ mainPc' = to
    /\ UNCHANGED <<cells, nvic, flags, isr, elapsed, format_buf, state, history, writers, entry, counts, accrual>>

main_exit(from, to) ==
    /\ MainRuns /\ mainPc = from
    /\ primask' = FALSE
    /\ mainPc' = to
    /\ UNCHANGED <<cells, nvic, flags, isr, elapsed, format_buf, state, history, writers, entry, counts, accrual>>

\* a start-up that hands over the timer and keeps the button
main_install_timer_only ==
    /\ MainRuns /\ mainPc = "m_install"
    /\ TIMER_TIM2' = "Some"
    /\ BUTTON' = BUTTON
    /\ mainPc' = "m_exit0"
    /\ UNCHANGED <<ELAPSED_MS, STATE_, nvic, flags, primask, isr, elapsed, format_buf, state, history, writers, entry, counts, accrual>>

\* TIMER_TIM2.replace(Some(timer)); BUTTON.replace(Some(board_btn))
main_install ==
    /\ MainRuns /\ mainPc = "m_install"
    /\ TIMER_TIM2' = "Some"
    /\ BUTTON' = "Some"
    /\ mainPc' = "m_exit0"
    /\ UNCHANGED <<ELAPSED_MS, STATE_, nvic, flags, primask, isr, elapsed, format_buf, state, history, writers, entry, counts, accrual>>

\* NVIC::unpend(Interrupt::TIM2)
main_unpend_tim2 ==
    /\ MainRuns /\ mainPc = "m_unpend_tim2"
    /\ Unpend("TIM2", tim2_uif)
    /\ mainPc' = "m_unpend_exti0"
    /\ UNCHANGED <<cells, unmasked, flags, primask, isr, elapsed, format_buf, state, history, writers, entry, counts, accrual>>

\* NVIC::unpend(Interrupt::EXTI0)
main_unpend_exti0 ==
    /\ MainRuns /\ mainPc = "m_unpend_exti0"
    /\ Unpend("EXTI0", exti_pr)
    /\ mainPc' = "m_unmask_exti0"
    /\ UNCHANGED <<cells, unmasked, flags, primask, isr, elapsed, format_buf, state, history, writers, entry, counts, accrual>>

\* a start-up that unmasks both interrupt sources
main_unmask_both ==
    /\ MainRuns /\ mainPc = "m_unmask_exti0"
    /\ unmasked' = unmasked \cup {"EXTI0", "TIM2"}
    /\ mainPc' = "m_free1"
    /\ UNCHANGED <<cells, pending, flags, primask, isr, elapsed, format_buf, state, history, writers, entry, counts, accrual>>

\* NVIC::unmask(Interrupt::EXTI0)
main_unmask_exti0 ==
    /\ MainRuns /\ mainPc = "m_unmask_exti0"
    /\ unmasked' = unmasked \cup {"EXTI0"}
    /\ mainPc' = "m_free1"
    /\ UNCHANGED <<cells, pending, flags, primask, isr, elapsed, format_buf, state, history, writers, entry, counts, accrual>>

\* a read of the counter with take(), which leaves 0 behind
main_get_elapsed_take ==
    /\ MainRuns /\ mainPc = "m_get_elapsed"
    /\ elapsed' = ELAPSED_MS
    /\ ELAPSED_MS' = Zero
    /\ writers' = Wrote("ELAPSED_MS", "main")
    /\ mainPc' = "m_exit1"
    /\ UNCHANGED <<STATE_, TIMER_TIM2, BUTTON, nvic, flags, primask, isr, format_buf, state, history, entry, counts, accrual>>

\* let elapsed = free(|cs| ELAPSED_MS.borrow(cs).get())
main_get_elapsed ==
    /\ MainRuns /\ mainPc = "m_get_elapsed"
    /\ elapsed' = ELAPSED_MS
    /\ mainPc' = "m_exit1"
    /\ UNCHANGED <<cells, nvic, flags, primask, isr, format_buf, state, history, writers, entry, counts, accrual>>

\* format_elapsed(&mut format_buf, elapsed), the text fits
main_format ==
    /\ MainRuns /\ mainPc = "m_format"
    /\ FormatOk(elapsed)
    /\ format_buf' = FormatText(elapsed)
    /\ mainPc' = "m_free2"
    /\ UNCHANGED <<cells, nvic, flags, primask, isr, elapsed, state, history, writers, entry, counts, accrual>>

\* format_elapsed(&mut format_buf, elapsed), the text does not fit: fmt::write
\* returns Err, unwrap panics, the panic handler halts with interrupts disabled
main_format_panic ==
    /\ MainRuns /\ mainPc = "m_format"
    /\ ~FormatOk(elapsed)
    /\ mainPc' = "panicked"
    /\ primask' = TRUE
    /\ UNCHANGED <<cells, nvic, flags, isr, elapsed, format_buf, state, history, writers, entry, counts, accrual>>

\* let state = free(|cs| STATE.borrow(cs).get())
main_get_state ==
    /\ MainRuns /\ mainPc = "m_get_state"
    /\ state' = STATE_
    /\ mainPc' = "m_exit2"
    /\ UNCHANGED <<cells, nvic, flags, primask, isr, elapsed, format_buf, history, writers, entry, counts, accrual>>

\* what the two Text draws put on the display
Frame == [label |-> state_msg(state), time |-> format_buf]

\* Text::new(state_msg, ..).draw(), Text::new(format_buf.as_str(), ..).draw()
\* and disp.flush(): the display shows Frame
main_draw ==
    /\ MainRuns /\ mainPc = "m_draw"
    /\ mainPc' = "m_delay"
    /\ UNCHANGED <<cells, nvic, flags, primask, isr, elapsed, format_buf, state, history, writers, entry, counts, accrual>>

\* delay.delay_ms(100), and the locals of the iteration go out of scope
main_delay ==
    /\ MainRuns /\ mainPc = "m_delay"
    /\ elapsed' = Zero
    /\ format_buf' = <<>>
    /\ state' = "Ready"
    /\ mainPc' = "m_free1"
    /\ UNCHANGED <<cells, nvic, flags, primask, isr, history, writers, entry, counts, accrual>>

main ==
    \/ main_free("m_free0", "m_install") \/ main_install \/ main_exit("m_exit0", "m_unpend_tim2")
    \/ main_unpend_tim2 \/ main_unpend_exti0 \/ main_unmask_exti0
    \/ main_free("m_free1", "m_get_elapsed") \/ main_get_elapsed \/ main_exit("m_exit1", "m_format")
    \/ main_format \/ main_format_panic
    \/ main_free("m_free2", "m_get_state") \/ main_get_state \/ main_exit("m_exit2", "m_draw")
    \/ main_draw \/ main_delay

Next == TimerFire \/ ButtonEdge \/ TIM2 \/ EXTI0 \/ main

Spec == Init /\ [][Next]_vars

\* the processor always executes: a handler that has been entered runs on,
\* a deliverable interrupt is taken, and main runs whenever no handler does
FairSpec == Spec /\ WF_vars(main) /\ WF_vars(TIM2) /\ WF_vars(EXTI0)

\* ---- format_elapsed on its own ----
\* the values given to format_elapsed: runs of consecutive values from zero,
\* across a second, a minute, an hour and the capacity of the buffer, the
\* values the documentation names, and the last values of a u32
FormatInputs ==
    {FromInt(b + k) : b \in {0, 990, 59990, 3599990, 60000 * 1000 - 6}, k \in 0 .. FormatSpan}
        \cup {FromInt(61234), FromInt(3600000)}
        \cup {Sub(U32_MAX, Small(k)) : k \in 0 .. FormatSpan}

\* main about to call format_elapsed on a value the running counter has reached
FormatInit ==
    /\ elapsed \in FormatInputs
    /\ ELAPSED_MS = elapsed
    /\ STATE_ = "Running"
    /\ TIMER_TIM2 = "Some"
    /\ BUTTON = "Some"
    /\ unmasked = {"EXTI0", "TIM2"}
    /\ pending = {}
    /\ tim2_uif = FALSE
    /\ exti_pr = FALSE
    /\ primask = FALSE
    /\ active = "none"
    /\ irqPc = "idle"
    /\ val = Zero
    /\ isr_state = "Ready"
    /\ mainPc = "m_format"
    /\ format_buf = <<>>
    /\ state = "Ready"
    /\ history = {<<Zero, "Ready">>, <<Zero, "Running">>, <<elapsed, "Running">>}
    /\ entry = [state |-> "Ready", elapsed |-> Zero, unmasked |-> {}]
    /\ edges = 1
    /\ merged = 0
    /\ dispatches = 1
    /\ atUnmask = Zero
    /\ delivered = elapsed
    /\ wraps = 0
    /\ writers = [c \in {"ELAPSED_MS", "STATE"} |-> IF c = "STATE" THEN {"EXTI0"} ELSE {"EXTI0", "TIM2"}]

FormatNext == main_format \/ main_format_panic

FormatSpec == FormatInit /\ [][FormatNext]_vars

\* ---- the properties ----
\* a context is inside free(|cs| ..): a handler (its body is one closure), or
\* main at one of its three closures
InCriticalSection ==
    \/ active # "none"
    \/ mainPc \in {"m_install", "m_exit0", "m_get_elapsed", "m_exit1", "m_get_state", "m_exit2"}

\* EXTI0 has done all the writes of its closure, which it entered in state s
AtExitFrom(s) == active = "EXTI0" /\ irqPc = "e_exit" /\ entry.state = s

\* C1: the (elapsed, state) pair that main renders is a pair that ELAPSED_MS
\* and STATE held together at one instant.
C1_RenderedPairCoexisted ==
    mainPc = "m_draw" => <<elapsed, state>> \in history

\* C2: EXTI0 entered with STATE = Ready leaves its critical section with
\* STATE = Running, ELAPSED_MS = 0 and TIM2 unmasked; the counter is reset
\* before the unmask, and from the reset to the state write interrupts stay
\* disabled, EXTI0 stays the running handler and the counter stays 0.
C2_ReadyToRunning ==
    /\ AtExitFrom("Ready") =>
          STATE_ = "Running" /\ ELAPSED_MS = Zero /\ "TIM2" \in unmasked
    /\ irqPc = "start_unmask" => ELAPSED_MS = Zero /\ "TIM2" \notin unmasked
    /\ (irqPc \in {"start_unmask", "set_running"} \/ AtExitFrom("Ready")) =>
          primask /\ active = "EXTI0" /\ ELAPSED_MS = Zero

C2_Witness ==
    AtExitFrom("Ready") /\ STATE_ = "Running" /\ "TIM2" \in unmasked /\ tim2_uif

\* C3: EXTI0 entered with STATE = Running leaves its critical section with
\* STATE = Stopped, TIM2 masked and ELAPSED_MS as it was on entry.
C3_RunningToStopped ==
    AtExitFrom("Running") =>
        STATE_ = "Stopped" /\ "TIM2" \notin unmasked /\ ELAPSED_MS = entry.elapsed

C3_Witness ==
    AtExitFrom("Running") /\ STATE_ = "Stopped" /\ ELAPSED_MS # Zero

\* C4: EXTI0 entered with STATE = Stopped leaves STATE, ELAPSED_MS and the
\* NVIC masks as they were on entry, and has cleared the pending bit.
C4_StoppedIsNoOp ==
    AtExitFrom("Stopped") =>
        /\ STATE_ = "Stopped"
        /\ ELAPSED_MS = entry.elapsed
        /\ unmasked = entry.unmasked

C4_Witness ==
    AtExitFrom("Stopped") /\ ~exti_pr /\ ELAPSED_MS # Zero

\* C5: ELAPSED_MS changes (other than by stopwatch_start's reset) only while
\* STATE = Running, and once STATE = Stopped neither cell changes again.
C5_AdvancedOnlyWhileRunning ==
    [][/\ (ELAPSED_MS' # ELAPSED_MS /\ irqPc # "start_reset") => STATE_ = "Running"
       /\ STATE_ = "Stopped" => (ELAPSED_MS' = ELAPSED_MS /\ STATE_' = "Stopped")]_vars

C5_Witness ==
    STATE_ = "Stopped" /\ ELAPSED_MS # Zero /\ tim2_uif /\ "TIM2" \in pending /\ dispatches = MaxEdges

\* C6: outside the TIM2 handler ELAPSED_MS is the counter at unmask plus the
\* number of TIM2 handler invocations since, and the handler is not invoked
\* while TIM2 is masked.
C6_CounterIsUnmaskPlusN ==
    /\ active # "TIM2" => ELAPSED_MS = Add(atUnmask, delivered)
    /\ "TIM2" \notin unmasked => active # "TIM2"

\* C7: when no context is inside a critical section, TIM2 is unmasked exactly
\* when STATE = Running.
C7_UnmaskedIffRunning ==
    ~InCriticalSection => ("TIM2" \in unmasked <=> STATE_ = "Running")

C7_Witness ==
    ~InCriticalSection /\ STATE_ = "Running" /\ "TIM2" \in unmasked /\ mainPc = "m_format"

\* C8: ELAPSED_MS never decreases from one state to the next, except when
\* stopwatch_start resets it to zero.
C8_NeverDecreases ==
    [][\/ ELAPSED_MS' = ELAPSED_MS
       \/ Less(ELAPSED_MS, ELAPSED_MS')
       \/ (irqPc = "start_reset" /\ ELAPSED_MS' = Zero)]_vars

\* C9: STATE starts as Ready, and every change of it is made by the EXTI0
\* handler and goes from Ready to Running or from Running to Stopped.
C9_ForwardOnly ==
    /\ STATE_ = "Ready"
    /\ [][STATE_' # STATE_ =>
            /\ active = "EXTI0"
            /\ <<STATE_, STATE_'>> \in {<<"Ready", "Running">>, <<"Running", "Stopped">>}]_vars

C9_Witness ==
    STATE_ = "Stopped" /\ dispatches = MaxEdges /\ active = "none"

\* edges latched and not yet dispatched: one while the pending bit is set, one
\* while the handler has cleared it and not yet run its match
Owed ==
    (IF exti_pr THEN 1 ELSE 0)
        + (IF active = "EXTI0" /\ irqPc \in {"e_read", "e_match"} THEN 1 ELSE 0)

\* C10 as claimed: every falling edge has had, or is still owed, a dispatch of
\* its own.
C10_EveryEdgeDispatched ==
    edges = dispatches + Owed

\* C10: every run of EXTI0 makes one dispatch and uses up one latched edge;
\* the edges without a dispatch of their own are those that arrived while the
\* pending bit was already set.
C10_EdgesDispatchedOrMerged ==
    edges = dispatches + merged + Owed

C10_Witness ==
    merged > 0 /\ dispatches > 0 /\ Owed = 0 /\ edges = MaxEdges

\* ---- reading a text back ----
DigitValue(c) == CHOOSE d \in 0 .. 9 : Digits[d + 1] = c

IsDigits(t) == \A i \in 1 .. Len(t) : \E d \in 0 .. 9 : Digits[d + 1] = t[i]

RECURSIVE Value(_)
Value(t) == IF t = <<>> THEN 0 ELSE Value(SubSeq(t, 1, Len(t) - 1)) * 10 + DigitValue(t[Len(t)])

\* m * 60000 as a wide number: m * 2^16 - m * 5536
Minutes(m) == Sub(U32(m, 0), FromInt(m * 5536))

\* t is m:ss.mmm for e: the minutes unpadded, two digits of seconds below 60,
\* three digits of milliseconds, and m * 60000 + ss * 1000 + mmm = e
IsTextOf(t, e) ==
    LET n == Len(t)
        m == SubSeq(t, 1, n - 7)
        ss == SubSeq(t, n - 5, n - 4)
        mmm == SubSeq(t, n - 2, n)
    IN  /\ n >= 8
        /\ t[n - 6] = ":" /\ t[n - 3] = "."
        /\ IsDigits(m) /\ IsDigits(ss) /\ IsDigits(mmm)
        /\ (Len(m) > 1 => m[1] # "0")
        /\ Value(ss) \in 0 .. 59
        /\ Value(mmm) = U32Rem(e, 1000)
        /\ Value(m) = U32Div(e, 60000)
        /\ Add(Minutes(Value(m)), FromInt(Value(ss) * 1000 + Value(mmm))) = e

\* C11: for every elapsed value format_elapsed leaves in the buffer the text
\* m:ss.mmm whose parts add up to the value; 0, 1, 1000, 61234 and 3600000
\* give 0:00.000, 0:00.001, 0:01.000, 1:01.234 and 60:00.000.
C11_FormatProducesText ==
    mainPc # "m_format" =>
        /\ mainPc = "m_free2"
        /\ IsTextOf(format_buf, elapsed)
        /\ elapsed = FromInt(0) => format_buf = <<"0", ":", "0", "0", ".", "0", "0", "0">>
        /\ elapsed = FromInt(1) => format_buf = <<"0", ":", "0", "0", ".", "0", "0", "1">>
        /\ elapsed = FromInt(1000) => format_buf = <<"0", ":", "0", "1", ".", "0", "0", "0">>
        /\ elapsed = FromInt(61234) => format_buf = <<"1", ":", "0", "1", ".", "2", "3", "4">>
        /\ elapsed = FromInt(3600000) => format_buf = <<"6", "0", ":", "0", "0", ".", "0", "0", "0">>

\* the frame on the display is the one of the stopped watch
StoppedFrame ==
    /\ mainPc = "m_delay"
    /\ STATE_ = "Stopped"
    /\ Frame = [label |-> "Stopped", time |-> FormatText(ELAPSED_MS)]

\* C12: once the stop edge has been handled main eventually renders "Stopped"
\* with the formatted counter of the stop, every later frame is that frame,
\* and the label of a frame is "Ready", "" or "Stopped" for the state read.
C12_StoppedFrameShown ==
    /\ [](mainPc = "m_delay" =>
            Frame.label = CASE state = "Ready" -> "Ready"
                            [] state = "Running" -> ""
                            [] state = "Stopped" -> "Stopped")
    /\ (STATE_ = "Stopped" ~> StoppedFrame)
    /\ [](StoppedFrame => [](mainPc = "m_delay" => StoppedFrame))

\* main is inside one of its three free(|cs| ..) closures
MainInCriticalSection ==
    mainPc \in {"m_install", "m_exit0", "m_get_elapsed", "m_exit1", "m_get_state", "m_exit2"}

\* the next step of main, or of the running handler, borrows one of the cells
MainAccess == mainPc \in {"m_install", "m_get_elapsed", "m_get_state"}

HandlerAccess ==
    /\ active # "none"
    /\ irqPc \in {"t_ack", "t_get", "t_replace", "e_btn", "e_read",
                  "start_reset", "set_running", "set_stopped"}

\* C13: every access to ELAPSED_MS, STATE, TIMER_TIM2 and BUTTON happens with
\* interrupts disabled, main and a handler are never both inside a critical
\* section, and no handler starts while main is inside one.
C13_AccessesInCriticalSection ==
    /\ [](MainAccess \/ HandlerAccess => primask)
    /\ [](InCriticalSection => primask)
    /\ [](MainInCriticalSection => active = "none")
    /\ [][active' # active /\ active' # "none" =>
            ~primask /\ ~MainInCriticalSection /\ active = "none"]_vars

C13_Witness ==
    /\ mainPc = "m_get_elapsed" /\ primask
    /\ pending \cap unmasked # {}

\* C14: both slots are filled before any interrupt is unmasked, a running
\* handler finds its slot filled, a filled slot is never emptied, and main
\* does not come back to the slots after the hand-over.
C14_SlotsInstalledBeforeUnmask ==
    /\ [](unmasked # {} => TIMER_TIM2 = "Some" /\ BUTTON = "Some")
    /\ [](active = "TIM2" => TIMER_TIM2 = "Some")
    /\ [](active = "EXTI0" => BUTTON = "Some")
    /\ [](TIMER_TIM2 = "Some" \/ BUTTON = "Some" => mainPc \notin {"m_free0", "m_install"})
    /\ [][/\ TIMER_TIM2 = "Some" => TIMER_TIM2' = "Some"
          /\ BUTTON = "Some" => BUTTON' = "Some"]_vars
    /\ [][mainPc' # mainPc /\ mainPc # "m_install" =>
            TIMER_TIM2' = TIMER_TIM2 /\ BUTTON' = BUTTON]_vars

C14_Witness ==
    /\ active = "TIM2" /\ irqPc = "t_ack" /\ TIMER_TIM2 = "Some"
    /\ dispatches >= 1 /\ BUTTON = "Some"

\* C15: no step of main changes ELAPSED_MS, STATE or the TIM2 mask bit, and
\* no step of the TIM2 handler changes STATE or the TIM2 mask bit.
C15_MainOnlyObserves ==
    /\ [][mainPc' # mainPc =>
            /\ ELAPSED_MS' = ELAPSED_MS
            /\ STATE_' = STATE_
            /\ ("TIM2" \in unmasked') = ("TIM2" \in unmasked)]_vars
    /\ [][TIM2 =>
            /\ STATE_' = STATE_
            /\ ("TIM2" \in unmasked') = ("TIM2" \in unmasked)]_vars

C15_Witness ==
    /\ mainPc = "m_delay" /\ STATE_ = "Running"
    /\ elapsed # Zero /\ ELAPSED_MS # elapsed

\* C16: ELAPSED_MS is written by the TIM2 handler alone and STATE by the
\* EXTI0 handler alone.
C16_OneWriterEach ==
    /\ writers["ELAPSED_MS"] \subseteq {"TIM2"}
    /\ writers["STATE"] \subseteq {"EXTI0"}

\* C16, amended: STATE is written by the EXTI0 handler alone; ELAPSED_MS is
\* written by the TIM2 handler and, in the transition from Ready to Running,
\* by the EXTI0 handler, whose stopwatch_start sets it to 0; main writes
\* neither cell.
C16_WritersOfTheCells ==
    /\ [](writers["ELAPSED_MS"] \subseteq {"TIM2", "EXTI0"})
    /\ [](writers["STATE"] \subseteq {"EXTI0"})
    /\ [][active = "EXTI0" /\ (writers' # writers \/ ELAPSED_MS' # ELAPSED_MS) =>
            \/ STATE_' # STATE_ /\ ELAPSED_MS' = ELAPSED_MS
            \/ /\ irqPc = "start_reset" /\ isr_state = "Ready"
               /\ ELAPSED_MS' = Zero /\ STATE_' = STATE_]_vars

C16_Witness ==
    /\ writers["ELAPSED_MS"] = {"TIM2", "EXTI0"}
    /\ writers["STATE"] = {"EXTI0"}
    /\ STATE_ = "Stopped" /\ ELAPSED_MS # Zero

\* C17: every critical section entered is left with interrupts enabled
\* again, every handler invocation returns, and main completes iterations
\* (read, format, render) again and again.
C17_NoContextBlocks ==
    /\ [](primask => <>(~primask))
    /\ [](active # "none" => <>(active = "none"))
    /\ []<>(mainPc = "m_delay")

\* C18: every TIM2 invocation clears the timeout flag, every EXTI0 invocation
\* clears the pending edge flag before it reads STATE and dispatches, and a
\* handler is pending again only when its flag has been raised again.
C18_HandlersAcknowledge ==
    /\ [][active = "TIM2" /\ irqPc = "t_ack" /\ irqPc' # "t_ack" =>
            ~tim2_uif' /\ irqPc' = "t_get"]_vars
    /\ [][active = "EXTI0" /\ irqPc = "e_btn" /\ irqPc' # "e_btn" =>
            ~exti_pr' /\ irqPc' = "e_read"]_vars
    /\ [][irqPc' # irqPc /\ irqPc' \in {"e_read", "t_get"} =>
            irqPc \in {"e_btn", "t_ack"}]_vars
    /\ [][irqPc' # irqPc /\ irqPc' \in {"e_match", "t_replace"} =>
            irqPc \in {"e_read", "t_get"}]_vars
    /\ []("TIM2" \in pending => tim2_uif)
    /\ []("EXTI0" \in pending => exti_pr)
    /\ [](dispatches <= edges)

C18_Witness ==
    /\ active = "EXTI0" /\ irqPc = "e_read" /\ ~exti_pr
    /\ "EXTI0" \notin pending
    /\ delivered # Zero /\ ~tim2_uif

\* C19: the text of every value ELAPSED_MS reaches fits the 10-byte buffer
\* of main, so format_elapsed never panics and main keeps rendering.
C19_TextFitsBuffer ==
    /\ Len(FormatText(ELAPSED_MS)) <= BufCap
    /\ mainPc = "m_format" => Len(FormatText(elapsed)) <= BufCap
    /\ mainPc # "panicked"

\* C20: while STATE is Ready ELAPSED_MS is 0, and a frame with the label
\* "Ready" shows the time 0:00.000.
C20_ReadyShowsZero ==
    /\ STATE_ = "Ready" => ELAPSED_MS = Zero
    /\ mainPc \in {"m_draw", "m_delay"} /\ Frame.label = "Ready" =>
          Frame.time = <<"0", ":", "0", "0", ".", "0", "0", "0">>

C20_Witness ==
    /\ mainPc = "m_delay" /\ Frame.label = "Ready"
    /\ STATE_ = "Ready" /\ tim2_uif
====
